---- MODULE Spec2Model ----
(***************************************************************************)
(* Request statistics tracker of wataru-api.                               *)
(*                                                                         *)
(* src/utils/requestTracker.js holds two backends with the same interface: *)
(* the SQLite tracker (lines 1-372) and the in-memory tracker (lines       *)
(* 373-485).  src/index.js holds the response middleware that calls        *)
(* trackRequest.  The variable `backend` selects the tracker the module    *)
(* exports; it never changes during a behaviour.                           *)
(*                                                                         *)
(* The SQLite tracker talks to the database through node-sqlite3: every    *)
(* db.run issued inside db.serialize is put on the database's statement    *)
(* queue and the statements run one at a time, in queue order; a statement *)
(* that fails and has no callback emits an 'error' event nobody listens    *)
(* to, which ends the process.                                             *)
(***************************************************************************)
EXTENDS Integers, Sequences, FiniteSets, TLC

(***************************************************************************)
(* Bounds of the model.                                                    *)
(***************************************************************************)
MaxTrack == 2      \* trackRequest calls
MaxPipelineTrack == 4  \* trackRequest calls made by the response middleware
MaxResets == 1     \* reset() calls
MaxRestarts == 1   \* restarts of the process (persistent backend)
MaxTicks == 1      \* steps of the clock
MaxLimit == 2      \* largest limit passed to getTopEndpoints
MaxKeyTrack == 4   \* trackRequest calls of the endpoint-key scenario

(***************************************************************************)
(* Time.  The clock counts half hours from local midnight of EpochDay; the  *)
(* program starts half an hour before the next midnight and the clock is   *)
(* observed every TickLen half hours.                                      *)
(***************************************************************************)
TicksPerHour == 2
TicksPerDay == 24 * TicksPerHour
EpochDay == 59     \* day of the year of the first tick: February 28
TickLen == 3
StartTick == TicksPerDay - 1

(***************************************************************************)
(* Inputs.                                                                 *)
(***************************************************************************)
NullV == "<null>"
UndefV == "<undefined>"
Paths == {"/weather"}
Methods == {"GET", "get", "POST", "", NullV, UndefV}
ReqPaths == {"/api/weather", "/api/joke", "/docs"}
ReqMethods == {"GET", "POST"}
Statuses == {200, 404}
ResponseMethods == {"json", "send", "end"}

IsString(v) == v \notin {NullV, UndefV}

\* String.prototype.toUpperCase on the method names of the model
ToUpperCase(s) ==
    CASE s = "get" -> "GET"
      [] s = "post" -> "POST"
      [] OTHER -> s

\* the mutant of EndpointKey: the method is used as it was given
EndpointKeyAsGiven(method, apiPath) == method \o " " \o apiPath

\* the template literal `${method.toUpperCase()} ${apiPath}`
EndpointKey(method, apiPath) == ToUpperCase(method) \o " " \o apiPath

AllKeys == {EndpointKey(m, p) : m \in {x \in Methods : IsString(x)}, p \in Paths}

(***************************************************************************)
(* Calendar: a Date is a day of the year (1 = January 1) of a common year. *)
(***************************************************************************)
MonthStart(m) == CASE m = 1 -> 0 [] m = 2 -> 31 [] m = 3 -> 59 [] OTHER -> 90

MonthOf(o) == IF o <= 31 THEN 1 ELSE IF o <= 59 THEN 2 ELSE IF o <= 90 THEN 3 ELSE 4

\* new Date(): the calendar day of clock value t
DayOf(t) == EpochDay + (t \div TicksPerDay)

\* Date.prototype.getDate: day of the month
getDate(o) == o - MonthStart(MonthOf(o))

\* Date.prototype.setDate(n): day n of the date's month, rolling over the
\* month's ends when n is outside it
setDate(o, n) == MonthStart(MonthOf(o)) + n

\* Date.prototype.toDateString, as month * 100 + day of the month
toDateString(o) == MonthOf(o) * 100 + getDate(o)

\* new Date(dateString): back to the day of the year
ParseDate(s) == MonthStart(s \div 100) + (s % 100)

\* toLocaleDateString('en-US', {month: 'short', day: 'numeric'})
ShortDate(o) == <<MonthOf(o), getDate(o)>>

\* Date.prototype.toISOString, as <<day, time of day>>
toISOString(t) == <<DayOf(t), t % TicksPerDay>>

\* new Date(isoString)
ParseISO(v) == (v[1] - EpochDay) * TicksPerDay + v[2]

(***************************************************************************)
(* Text values of the stats table: an integer is stored as its decimal     *)
(* digits (the value column is TEXT).                                      *)
(***************************************************************************)
RECURSIVE ToText(_)
ToText(n) == IF n < 10 THEN <<n>> ELSE Append(ToText(n \div 10), n % 10)

\* CAST(value AS INTEGER) and parseInt(value)
RECURSIVE CastInteger(_)
CastInteger(d) ==
    IF Len(d) = 0 THEN 0
    ELSE CastInteger(SubSeq(d, 1, Len(d) - 1)) * 10 + d[Len(d)]

parseInt(d) == CastInteger(d)

(***************************************************************************)
(* Insertion-ordered maps (a JavaScript Map, or the rows of a table with a *)
(* UNIQUE key in rowid order): sequences of [k, v].                        *)
(***************************************************************************)
HasKey(m, k) == \E i \in 1..Len(m) : m[i].k = k

\* Map.prototype.get(k) || 0, and SELECT count ... WHERE key = k with row ? row.count : 0
GetOr0(m, k) == IF HasKey(m, k) THEN (CHOOSE e \in {m[i] : i \in 1..Len(m)} : e.k = k).v ELSE 0

\* Map.prototype.set(k, v): an existing key keeps its place
MapSet(m, k, v) ==
    IF HasKey(m, k)
    THEN [i \in 1..Len(m) |-> IF m[i].k = k THEN [k |-> k, v |-> v] ELSE m[i]]
    ELSE Append(m, [k |-> k, v |-> v])

RECURSIVE SumV(_)
SumV(m) == IF Len(m) = 0 THEN 0 ELSE m[1].v + SumV(Tail(m))

RECURSIVE CountOf(_, _)
CountOf(s, x) == IF Len(s) = 0 THEN 0 ELSE (IF s[1] = x THEN 1 ELSE 0) + CountOf(Tail(s), x)

(***************************************************************************)
(* State.                                                                  *)
(***************************************************************************)
VARIABLES
    backend,         \* "sqlite" or "memory": the tracker the module exports
    now,             \* the clock
    startTime,       \* this.startTime
    \* in-memory tracker
    requestCounts,   \* this.requestCounts
    totalRequests,   \* this.totalRequests
    dailyRequests,   \* this.dailyRequests
    \* SQLite tracker: the process and the database handle
    proc,            \* "running", "exited" (process.exit), "crashed" (uncaught error)
    db,              \* this.db: "opening", "open", "failed" (open error), "closed"
    queue,           \* statements scheduled on the handle, not yet run
    \* SQLite tracker: the database file
    tables,          \* the tables that exist
    request_counts,  \* rows of request_counts, in rowid order
    daily_requests,  \* rows of daily_requests, in rowid order
    stats,           \* stats.value of the rows total_requests and start_time
    \* history of the behaviour
    calls,           \* keys of the trackRequest calls that returned since the last reset() call
    callDays,        \* the `today` of each of these calls
    tracked,         \* trackRequest calls that returned so far
    resets,          \* reset() calls so far
    restarts,        \* restarts so far
    ticks,           \* clock steps so far
    fresh,           \* a reset has completed and no trackRequest was called since it was called
    resetAt,         \* the clock when reset() was last called
    last             \* the last call and what it returned

vars == <<backend, now, startTime, requestCounts, totalRequests, dailyRequests,
          proc, db, queue, tables, request_counts, daily_requests, stats,
          calls, callDays, tracked, resets, restarts, ticks, fresh, resetAt, last>>

memVars == <<requestCounts, totalRequests, dailyRequests>>
fileVars == <<tables, request_counts, daily_requests, stats>>
ghostVars == <<calls, callDays, tracked, resets, restarts, ticks, fresh, resetAt>>

NoRow == <<>>

\* a statement on the queue: an operation, its parameter, and whether the
\* caller passed a callback
Stmt(op, key, n, cb) == [op |-> op, key |-> key, n |-> n, cb |-> cb]

(***************************************************************************)
(* In-memory tracker.                                                      *)
(***************************************************************************)
Mem(rc, total, daily) == [requestCounts |-> rc, totalRequests |-> total, dailyRequests |-> daily]

\* trackRequest, lines 385-397, on a tracker state m
MemTrackRequest(m, key, today) ==
    Mem(MapSet(m.requestCounts, key, GetOr0(m.requestCounts, key) + 1),
        m.totalRequests + 1,
        MapSet(m.dailyRequests, today, GetOr0(m.dailyRequests, today) + 1))

RECURSIVE MemTrackTimes(_, _, _, _)
MemTrackTimes(m, key, today, n) ==
    IF n = 0 THEN m ELSE MemTrackTimes(MemTrackRequest(m, key, today), key, today, n - 1)

\* reset, lines 474-479
MemReset == Mem(<<>>, 0, <<>>)

(***************************************************************************)
(* SQLite tracker: the statements and what each does to the file.          *)
(***************************************************************************)
\* createTables, lines 62-78
CreateTablesStatements(start) ==
    << Stmt("createRequestCounts", "", 0, FALSE),
       Stmt("createDailyRequests", "", 0, FALSE),
       Stmt("createStats", "", 0, FALSE),
       Stmt("initTotal", "", 0, FALSE),
       Stmt("initStartTime", "", start, FALSE) >>

\* trackRequest, lines 86-112
TrackStatements(key, today) ==
    << Stmt("upsertEndpoint", key, 0, FALSE),
       Stmt("upsertDay", "", today, FALSE),
       Stmt("incTotal", "", 0, FALSE) >>

RECURSIVE TrackStatementsTimes(_, _, _)
TrackStatementsTimes(key, today, n) ==
    IF n = 0 THEN <<>> ELSE TrackStatements(key, today) \o TrackStatementsTimes(key, today, n - 1)

\* the mutant of ResetStatements: daily_requests is not cleared
ResetStatementsKeepDays(t) ==
    << Stmt("deleteEndpoints", "", 0, FALSE),
       Stmt("zeroTotal", "", 0, FALSE),
       Stmt("setStartTime", "", t, TRUE) >>

\* reset, lines 328-340
ResetStatements(t) ==
    << Stmt("deleteEndpoints", "", 0, FALSE),
       Stmt("deleteDays", "", 0, FALSE),
       Stmt("zeroTotal", "", 0, FALSE),
       Stmt("setStartTime", "", t, TRUE) >>

\* the table a statement needs
TableOf(s) ==
    CASE s.op \in {"upsertEndpoint", "deleteEndpoints"} -> {"request_counts"}
      [] s.op \in {"upsertDay", "deleteDays"} -> {"daily_requests"}
      [] s.op \in {"initTotal", "initStartTime", "incTotal", "zeroTotal", "setStartTime"} -> {"stats"}
      [] OTHER -> {}

File(t, rc, daily, st) == [tables |-> t, request_counts |-> rc, daily_requests |-> daily, stats |-> st]

\* the mutant of Upsert: INSERT OR REPLACE, the row is set back to 1
UpsertReplaces(rows, k) == MapSet(rows, k, 1)

\* a second mutant of Upsert: ON CONFLICT ... SET count = count - 1
UpsertCountsDown(rows, k) == MapSet(rows, k, IF HasKey(rows, k) THEN GetOr0(rows, k) - 1 ELSE 1)

\* INSERT ... VALUES (?, 1) ON CONFLICT(...) DO UPDATE SET count = count + 1
Upsert(rows, k) == MapSet(rows, k, GetOr0(rows, k) + 1)

\* the mutant of IncTotal: SET value = 1 instead of value + 1
IncTotalSetsOne(st) ==
    IF st.total_requests = NoRow THEN st ELSE [st EXCEPT !.total_requests = <<1>>]

\* UPDATE stats SET value = CAST(value AS INTEGER) + 1 WHERE key = 'total_requests'
IncTotal(st) ==
    IF st.total_requests = NoRow THEN st
    ELSE [st EXCEPT !.total_requests = ToText(CastInteger(st.total_requests) + 1)]

\* the mutant of InitStartTime: INSERT OR REPLACE, every start overwrites it
InitStartTimeReplaces(st, t) == [st EXCEPT !.start_time = toISOString(t)]

\* INSERT OR IGNORE INTO stats (key, value) VALUES ('start_time', ?), lines 74-77
InitStartTime(st, t) ==
    IF st.start_time = NoRow THEN [st EXCEPT !.start_time = toISOString(t)] ELSE st

\* the file after statement s has run
Apply(f, s) ==
    CASE s.op = "createRequestCounts" -> [f EXCEPT !.tables = @ \cup {"request_counts"}]
      [] s.op = "createDailyRequests" -> [f EXCEPT !.tables = @ \cup {"daily_requests"}]
      [] s.op = "createStats" -> [f EXCEPT !.tables = @ \cup {"stats"}]
      [] s.op = "initTotal" ->
            IF f.stats.total_requests = NoRow
            THEN [f EXCEPT !.stats.total_requests = <<0>>] ELSE f
      [] s.op = "initStartTime" -> [f EXCEPT !.stats = InitStartTime(@, s.n)]
      [] s.op = "upsertEndpoint" -> [f EXCEPT !.request_counts = Upsert(@, s.key)]
      [] s.op = "upsertDay" -> [f EXCEPT !.daily_requests = Upsert(@, s.n)]
      [] s.op = "incTotal" -> [f EXCEPT !.stats = IncTotal(@)]
      [] s.op = "deleteEndpoints" -> [f EXCEPT !.request_counts = <<>>]
      [] s.op = "deleteDays" -> [f EXCEPT !.daily_requests = <<>>]
      [] s.op = "zeroTotal" ->
            IF f.stats.total_requests = NoRow THEN f
            ELSE [f EXCEPT !.stats.total_requests = <<0>>]
      [] s.op = "setStartTime" ->
            IF f.stats.start_time = NoRow THEN f
            ELSE [f EXCEPT !.stats.start_time = toISOString(s.n)]
      [] OTHER -> f

TheFile == File(tables, request_counts, daily_requests, stats)

(***************************************************************************)
(* Initial state: the module has just been loaded and the tracker          *)
(* constructed (lines 5-10 and 359, or 377-382 and 483).  The SQLite       *)
(* tracker has asked for the database to be opened; the file is new.       *)
(***************************************************************************)
None == [op |-> "none"]

Init ==
    /\ backend \in {"sqlite", "memory"}
    /\ now = StartTick
    /\ startTime = StartTick
    /\ requestCounts = <<>>
    /\ totalRequests = 0
    /\ dailyRequests = <<>>
    /\ proc = "running"
    /\ db = "opening"
    /\ queue = <<>>
    /\ tables = {}
    /\ request_counts = <<>>
    /\ daily_requests = <<>>
    /\ stats = [total_requests |-> NoRow, start_time |-> NoRow]
    /\ calls = <<>>
    /\ callDays = <<>>
    /\ tracked = 0
    /\ resets = 0
    /\ restarts = 0
    /\ ticks = 0
    /\ fresh = FALSE
    /\ resetAt = StartTick
    /\ last = None

Running == backend = "memory" \/ proc = "running"

\* a query can be answered: the handle is open (a query on a handle that is
\* still opening waits on the queue)
CanRead == backend = "memory" \/ (proc = "running" /\ db = "open")

(***************************************************************************)
(* The clock.                                                              *)
(***************************************************************************)
Tick ==
    /\ ticks < MaxTicks
    /\ now' = now + TickLen
    /\ ticks' = ticks + 1
    /\ last' = None
    /\ UNCHANGED <<backend, startTime, memVars, proc, db, queue, fileVars,
                   calls, callDays, tracked, resets, restarts, fresh, resetAt>>

(***************************************************************************)
(* trackRequest(apiPath, method).                                          *)
(***************************************************************************)
\* n calls of trackRequest(apiPath, method), one after the other, with a
\* method that is a string: lines 83-112, or 386-394
TrackTimes(apiPath, method, n) ==
    LET key == EndpointKey(method, apiPath)
        today == toDateString(DayOf(now))
        m == MemTrackTimes(Mem(requestCounts, totalRequests, dailyRequests), key, today, n)
    IN  /\ IF backend = "memory"
           THEN /\ requestCounts' = m.requestCounts
                /\ totalRequests' = m.totalRequests
                /\ dailyRequests' = m.dailyRequests
                /\ UNCHANGED queue
           ELSE /\ queue' = queue \o TrackStatementsTimes(key, today, n)
                /\ UNCHANGED memVars
        /\ calls' = calls \o [i \in 1..n |-> key]
        /\ callDays' = callDays \o [i \in 1..n |-> today]
        /\ tracked' = tracked + n
        /\ fresh' = (fresh /\ n = 0)

\* the default parameter value: method = 'GET' applies to undefined only
DefaultMethod(method) == IF method = UndefV THEN "GET" ELSE method

\* trackRequest(apiPath, method): lines 82-115, or 385-397
TrackCall(apiPath, method) ==
    /\ Running
    /\ IF ~IsString(DefaultMethod(method))
       THEN \* method.toUpperCase is not a function: TypeError
            /\ UNCHANGED <<memVars, queue, calls, callDays, tracked, fresh>>
            /\ last' = [op |-> "trackRequest", method |-> method, outcome |-> "threw"]
       ELSE IF backend = "sqlite" /\ db = "closed"
       THEN \* db.run on a closed handle: "Database is closed", emitted as an
            \* 'error' event nobody listens to, which throws out of the call
            /\ UNCHANGED <<memVars, queue, calls, callDays, tracked, fresh>>
            /\ last' = [op |-> "trackRequest", method |-> "", outcome |-> "threw"]
       ELSE /\ TrackTimes(apiPath, DefaultMethod(method), 1)
            /\ last' = [op |-> "trackRequest", method |-> "", outcome |-> "returned"]
    /\ UNCHANGED <<backend, now, startTime, proc, db, fileVars,
                   resets, restarts, ticks, resetAt>>

TrackRequest(apiPath, method) ==
    /\ tracked < MaxTrack
    /\ TrackCall(apiPath, method)

\* the calls of the endpoint-key scenario: methods that name an HTTP method
KeyMethods == {"GET", "get", "POST"}

TrackKey(apiPath, method) ==
    /\ tracked < MaxKeyTrack
    /\ TrackCall(apiPath, method)

(***************************************************************************)
(* The response middleware of src/index.js, lines 49-71.                   *)
(***************************************************************************)
\* req.path.startsWith('/api/')
StartsWithApi(reqPath) == reqPath \in {"/api/weather", "/api/joke", "/api/info"}

\* req.path.replace('/api', '')
StripApi(reqPath) ==
    CASE reqPath = "/api/weather" -> "/weather"
      [] reqPath = "/api/joke" -> "/joke"
      [] reqPath = "/api/info" -> "/info"
      [] OTHER -> reqPath

\* the condition of the trackRequest closure, line 51
ShouldTrack(reqPath, status) == StartsWithApi(reqPath) /\ status < 400

\* how often the closure runs when the handler answers with res.<via>: each
\* override runs it and calls the original method, and the original json
\* calls this.send, the original send calls this.end
RECURSIVE ClosureRuns(_)
ClosureRuns(via) ==
    CASE via = "json" -> 1 + ClosureRuns("send")
      [] via = "send" -> 1 + ClosureRuns("end")
      [] OTHER -> 1

TrackCallsOf(reqPath, status, via) ==
    IF ShouldTrack(reqPath, status) THEN ClosureRuns(via) ELSE 0

HandleRequest(reqPath, reqMethod, status, via) ==
    /\ Running
    /\ tracked + TrackCallsOf(reqPath, status, via) <= MaxPipelineTrack
    /\ TrackTimes(StripApi(reqPath), reqMethod, TrackCallsOf(reqPath, status, via))
    /\ last' = [op |-> "request", tracked |-> ShouldTrack(reqPath, status),
                calls |-> TrackCallsOf(reqPath, status, via)]
    /\ UNCHANGED <<backend, now, startTime, proc, db, fileVars,
                   resets, restarts, ticks, resetAt>>

(***************************************************************************)
(* reset().                                                                *)
(***************************************************************************)
Reset ==
    /\ Running
    /\ resets < MaxResets
    /\ resets' = resets + 1
    /\ calls' = <<>>
    /\ callDays' = <<>>
    /\ resetAt' = now
    /\ IF backend = "memory"
       THEN /\ requestCounts' = MemReset.requestCounts
            /\ totalRequests' = MemReset.totalRequests
            /\ dailyRequests' = MemReset.dailyRequests
            /\ startTime' = now
            /\ fresh' = TRUE
            /\ last' = [op |-> "reset", outcome |-> "returned"]
            /\ UNCHANGED queue
       ELSE /\ queue' = queue \o ResetStatements(now)
            /\ fresh' = FALSE
            /\ last' = [op |-> "reset", outcome |-> "pending"]
            /\ UNCHANGED <<memVars, startTime>>
    /\ UNCHANGED <<backend, now, proc, db, fileVars, tracked, restarts, ticks>>

(***************************************************************************)
(* The SQLite handle and the process.                                      *)
(***************************************************************************)
\* the open callback, lines 21-28: createTables schedules its statements;
\* nothing is running on the handle, so the first one starts at once, ahead
\* of the statements that queued up while the handle was opening
Open ==
    /\ backend = "sqlite" /\ proc = "running" /\ db = "opening"
    /\ db' = "open"
    /\ queue' = <<Head(CreateTablesStatements(startTime))>> \o queue
                   \o Tail(CreateTablesStatements(startTime))
    /\ last' = None
    /\ UNCHANGED <<backend, now, startTime, memVars, proc, fileVars, ghostVars>>

\* the open callback with err set, line 23: the error is logged
OpenFails ==
    /\ backend = "sqlite" /\ proc = "running" /\ db = "opening"
    /\ db' = "failed"
    /\ last' = None
    /\ UNCHANGED <<backend, now, startTime, memVars, proc, queue, fileVars, ghostVars>>

\* statement s cannot run: its table is missing, or the storage fails
StatementFails(s, err) == err \/ ~(TableOf(s) \subseteq tables)

\* the statement at the head of the queue runs
Exec(err) ==
    /\ backend = "sqlite" /\ proc = "running" /\ db = "open"
    /\ queue # <<>>
    /\ Head(queue).op # "close"
    /\ LET s == Head(queue)
           f == Apply(TheFile, s)
       IN  IF ~StatementFails(s, err)
           THEN /\ tables' = f.tables
                /\ request_counts' = f.request_counts
                /\ daily_requests' = f.daily_requests
                /\ stats' = f.stats
                /\ queue' = Tail(queue)
                /\ UNCHANGED proc
                /\ IF s.cb
                   THEN \* the callback of reset's last statement, lines 332-339
                        /\ startTime' = now
                        /\ fresh' = IF Tail(queue) = <<>> THEN TRUE ELSE fresh
                        /\ last' = [op |-> "reset", outcome |-> "resolved"]
                   ELSE /\ UNCHANGED <<startTime, fresh>>
                        /\ last' = None
           ELSE IF s.cb
           THEN \* reject(err), line 334
                /\ queue' = Tail(queue)
                /\ last' = [op |-> "reset", outcome |-> "rejected"]
                /\ UNCHANGED <<fileVars, proc, startTime, fresh>>
           ELSE \* no callback: an 'error' event without a listener
                /\ proc' = "crashed"
                /\ queue' = <<>>
                /\ fresh' = FALSE
                /\ last' = None
                /\ UNCHANGED <<fileVars, startTime>>
    /\ UNCHANGED <<backend, now, memVars, db, calls, callDays, tracked, resets, restarts, ticks, resetAt>>

\* close() has been called on the handle of the running process
CloseCalled ==
    /\ backend = "sqlite"
    /\ db = "closed" \/ \E i \in 1..Len(queue) : queue[i].op = "close"

\* close(), lines 345-355: db.close is scheduled behind the statements
\* already on the handle; its callback only logs
Close ==
    /\ backend = "sqlite" /\ proc = "running"
    /\ ~CloseCalled
    /\ queue' = Append(queue, Stmt("close", "", 0, TRUE))
    /\ last' = [op |-> "close", outcome |-> "returned"]
    /\ UNCHANGED <<backend, now, startTime, memVars, proc, db, fileVars, ghostVars>>

\* the scheduled close runs
ExecClose ==
    /\ backend = "sqlite" /\ proc = "running" /\ db = "open"
    /\ queue # <<>>
    /\ Head(queue).op = "close"
    /\ db' = "closed"
    /\ queue' = Tail(queue)
    /\ last' = None
    /\ UNCHANGED <<backend, now, startTime, memVars, proc, fileVars, ghostVars>>

\* a statement scheduled behind the close: "Database is closed" goes to its
\* callback, or without one to an 'error' event nobody listens to
ClosedFails ==
    /\ backend = "sqlite" /\ proc = "running" /\ db = "closed"
    /\ queue # <<>>
    /\ IF Head(queue).cb
       THEN \* reject(err), line 334
            /\ queue' = Tail(queue)
            /\ last' = [op |-> "reset", outcome |-> "rejected"]
            /\ UNCHANGED <<proc, fresh>>
       ELSE /\ proc' = "crashed"
            /\ queue' = <<>>
            /\ fresh' = FALSE
            /\ last' = None
    /\ UNCHANGED <<backend, now, startTime, memVars, db, fileVars,
                   calls, callDays, tracked, resets, restarts, ticks, resetAt>>

\* SIGINT or SIGTERM, lines 362-370: close() is scheduled behind the queued
\* statements and process.exit(0) ends the process at once
Signal ==
    /\ backend = "sqlite" /\ proc = "running"
    /\ proc' = "exited"
    /\ queue' = <<>>
    /\ fresh' = FALSE
    /\ last' = None
    /\ UNCHANGED <<backend, now, startTime, memVars, db, fileVars,
                   calls, callDays, tracked, resets, restarts, ticks, resetAt>>

\* the program is started again on the same database file
Restart ==
    /\ backend = "sqlite" /\ proc # "running"
    /\ restarts < MaxRestarts
    /\ restarts' = restarts + 1
    /\ proc' = "running"
    /\ db' = "opening"
    /\ queue' = <<>>
    /\ startTime' = now
    /\ last' = None
    /\ UNCHANGED <<backend, now, memVars, fileVars, calls, callDays, tracked, resets, ticks, fresh, resetAt>>

(***************************************************************************)
(* Queries.  The in-memory tracker answers from its maps; the SQLite       *)
(* tracker runs a SELECT on the file, which fails when the storage fails   *)
(* or the table does not exist yet.                                        *)
(***************************************************************************)
HistoryDays == 7
StatsTopLimit == 5

EndpointRows == IF backend = "memory" THEN requestCounts ELSE request_counts
DailyRows == IF backend = "memory" THEN dailyRequests ELSE daily_requests

\* a SELECT on `table` fails
SelectFails(table, err) == backend = "sqlite" /\ (err \/ table \notin tables)

\* only the storage of the SQLite tracker can fail
MayFail(err) == err => backend = "sqlite"

Result(op, arg, failed, rejected, res) ==
    [op |-> op, arg |-> arg, failed |-> failed, rejected |-> rejected, res |-> res]

\* getTotalRequests: lines 156-170 (row ? parseInt(row.value) : 0), or 411-413
TotalRequestsValue ==
    IF backend = "memory" THEN totalRequests
    ELSE IF stats.total_requests = NoRow THEN 0 ELSE parseInt(stats.total_requests)

\* getRequestCount: lines 118-133, or 400-403, for a method that is a string
RequestCountValue(apiPath, method) == GetOr0(EndpointRows, EndpointKey(method, apiPath))

\* the mutant of TodayRequestsValue: the buckets of all days are added up
TodayRequestsAllDays == SumV(DailyRows)

\* getTodayRequests: lines 173-188, or 416-419
TodayRequestsValue == GetOr0(DailyRows, toDateString(DayOf(now)))

\* getAllRequestCounts: lines 136-153, or 406-408; an object, as its set of entries
AllRequestCountsValue == {EndpointRows[i] : i \in 1..Len(EndpointRows)}

\* the start time getStatistics uses: lines 257-266, or this.startTime (447)
StartTimeValue ==
    IF backend = "memory" \/ stats.start_time = NoRow THEN startTime
    ELSE ParseISO(stats.start_time)

GetTotalRequests(err) ==
    /\ CanRead /\ MayFail(err)
    /\ last' = IF SelectFails("stats", err)
               THEN Result("getTotalRequests", "", TRUE, TRUE, 0)
               ELSE Result("getTotalRequests", "", FALSE, FALSE, TotalRequestsValue)
    /\ UNCHANGED <<backend, now, startTime, memVars, proc, db, queue, fileVars, ghostVars>>

GetRequestCount(apiPath, method, err) ==
    /\ CanRead /\ MayFail(err)
    /\ last' = IF ~IsString(DefaultMethod(method))
               THEN \* TypeError: thrown, or inside the Promise executor a rejection
                    Result("getRequestCount", method, FALSE, TRUE, 0)
               ELSE IF SelectFails("request_counts", err)
               THEN Result("getRequestCount", "", TRUE, TRUE, 0)
               ELSE Result("getRequestCount", EndpointKey(DefaultMethod(method), apiPath),
                           FALSE, FALSE, RequestCountValue(apiPath, DefaultMethod(method)))
    /\ UNCHANGED <<backend, now, startTime, memVars, proc, db, queue, fileVars, ghostVars>>

\* the argument recorded is the `today` the call computed
GetTodayRequests(err) ==
    /\ CanRead /\ MayFail(err)
    /\ last' = IF SelectFails("daily_requests", err)
               THEN Result("getTodayRequests", toDateString(DayOf(now)), TRUE, TRUE, 0)
               ELSE Result("getTodayRequests", toDateString(DayOf(now)), FALSE, FALSE,
                           TodayRequestsValue)
    /\ UNCHANGED <<backend, now, startTime, memVars, proc, db, queue, fileVars, ghostVars>>

GetAllRequestCounts(err) ==
    /\ CanRead /\ MayFail(err)
    /\ last' = IF SelectFails("request_counts", err)
               THEN Result("getAllRequestCounts", "", TRUE, TRUE, {})
               ELSE Result("getAllRequestCounts", "", FALSE, FALSE, AllRequestCountsValue)
    /\ UNCHANGED <<backend, now, startTime, memVars, proc, db, queue, fileVars, ghostVars>>

(***************************************************************************)
(* getTopEndpoints(limit).                                                 *)
(***************************************************************************)
Min(a, b) == IF a < b THEN a ELSE b

\* Array.prototype.slice(0, n) and LIMIT n, for n >= 0
Slice(s, n) == SubSeq(s, 1, Min(n, Len(s)))

\* rows -> {endpoint, count}
TopEntries(rows) == [i \in 1..Len(rows) |-> [endpoint |-> rows[i].k, count |-> rows[i].v]]

\* Array.prototype.sort(([,a], [,b]) => b - a): a stable sort, count descending
RECURSIVE InsertDesc(_, _)
InsertDesc(s, e) ==
    IF Len(s) = 0 THEN <<e>>
    ELSE IF s[1].v >= e.v THEN <<s[1]>> \o InsertDesc(Tail(s), e)
    ELSE <<e>> \o s

RECURSIVE SortDesc(_, _)
SortDesc(acc, rest) ==
    IF Len(rest) = 0 THEN acc ELSE SortDesc(InsertDesc(acc, rest[1]), Tail(rest))

\* lines 466-471
MemTopEndpoints(rows, limit) == TopEntries(Slice(SortDesc(<<>>, rows), limit))

\* ORDER BY count DESC: every order of the rows with the counts descending;
\* SQL leaves the order of rows with equal counts to the engine
OrderByCountDesc(rows) ==
    { o \in { [i \in 1..Len(rows) |-> rows[p[i]]] : p \in Permutations(1..Len(rows)) } :
        \A i \in 1..(Len(rows) - 1) : o[i].v >= o[i + 1].v }

\* lines 305-323
SqlTopEndpoints(rows, limit) == { TopEntries(Slice(o, limit)) : o \in OrderByCountDesc(rows) }

TopEndpointsValues(limit) ==
    IF backend = "memory" THEN {MemTopEndpoints(requestCounts, limit)}
    ELSE SqlTopEndpoints(request_counts, limit)

GetTopEndpoints(limit, err) ==
    /\ CanRead /\ MayFail(err)
    /\ IF SelectFails("request_counts", err)
       THEN last' = Result("getTopEndpoints", limit, TRUE, TRUE, <<>>)
       ELSE \E top \in TopEndpointsValues(limit) :
                last' = Result("getTopEndpoints", limit, FALSE, FALSE, top)
    /\ UNCHANGED <<backend, now, startTime, memVars, proc, db, queue, fileVars, ghostVars>>

(***************************************************************************)
(* getDailyHistory().  The loop reads the clock in each of its iterations; *)
(* c is the number of iterations that run before the clock steps (c =      *)
(* HistoryDays: the clock does not step during the call).                  *)
(***************************************************************************)
\* the day the j-th iteration (i = HistoryDays - j) computes: lines 215-216, 431-432
HistoryDay(j, c) ==
    LET date == IF j <= c THEN DayOf(now) ELSE DayOf(now + TickLen)
    IN  setDate(date, getDate(date) - (HistoryDays - j))

HistoryEntry(o) ==
    [date |-> toDateString(o), count |-> GetOr0(DailyRows, toDateString(o)), shortDate |-> ShortDate(o)]

\* history.sort((a, b) => new Date(a.date) - new Date(b.date))
RECURSIVE InsertByDate(_, _)
InsertByDate(s, e) ==
    IF Len(s) = 0 THEN <<e>>
    ELSE IF ParseDate(s[1].date) <= ParseDate(e.date) THEN <<s[1]>> \o InsertByDate(Tail(s), e)
    ELSE <<e>> \o s

RECURSIVE SortByDate(_, _)
SortByDate(acc, rest) ==
    IF Len(rest) = 0 THEN acc ELSE SortByDate(InsertByDate(acc, rest[1]), Tail(rest))

\* lines 428-442 (entries in loop order), and 209-244 (entries sorted by date)
DailyHistoryValue(c) ==
    LET pushed == [j \in 1..HistoryDays |-> HistoryEntry(HistoryDay(j, c))]
    IN  IF backend = "memory" THEN pushed ELSE SortByDate(<<>>, pushed)

\* the clock steps during the call, after iteration c
ClockSteps(c) ==
    /\ c \in 1..HistoryDays
    /\ c < HistoryDays => ticks < MaxTicks
    /\ now' = IF c < HistoryDays THEN now + TickLen ELSE now
    /\ ticks' = IF c < HistoryDays THEN ticks + 1 ELSE ticks

\* `days` is what the caller passes; the method declares no parameter
GetDailyHistory(days, c, err) ==
    /\ CanRead /\ MayFail(err)
    /\ ClockSteps(c)
    /\ last' = IF SelectFails("daily_requests", err)
               THEN Result("getDailyHistory", days, TRUE, TRUE, <<>>)
               ELSE Result("getDailyHistory", days, FALSE, FALSE, DailyHistoryValue(c))
    /\ UNCHANGED <<backend, startTime, memVars, proc, db, queue, fileVars,
                   calls, callDays, tracked, resets, restarts, fresh, resetAt>>

(***************************************************************************)
(* getStatistics().                                                        *)
(***************************************************************************)
ReadNames == {"total", "today", "top", "history", "start_time", "counts"}

\* toLocaleDateString('en-US', {weekday, year, month, day})
CurrentDate(t) == ShortDate(DayOf(t))

Snapshot(total, today, uptime, top, counts, history, label) ==
    [totalRequests |-> total, todayRequests |-> today, uptimeHours |-> uptime,
     topEndpoints |-> top, requestCounts |-> counts, dailyHistory |-> history,
     currentDate |-> label]

\* Math.floor((now - start) / (1000 * 60 * 60))
UptimeHours(t, start) == (t - start) \div TicksPerHour

\* the catch branch, lines 285-301
ZeroSnapshot(t) == Snapshot(0, 0, 0, <<>>, {}, <<>>, CurrentDate(t))

\* the reads of getStatistics that fail: those the storage fails, and those
\* whose table is missing
FailingReads(failedReads) ==
    IF backend = "memory" THEN {}
    ELSE failedReads
         \cup (IF "stats" \in tables THEN {} ELSE {"total", "start_time"})
         \cup (IF "daily_requests" \in tables THEN {} ELSE {"today", "history"})
         \cup (IF "request_counts" \in tables THEN {} ELSE {"top", "counts"})

\* lines 249-254: Promise.all rejects as soon as one of its four reads does
PromiseAllRejects(failing) == failing \cap {"total", "today", "top", "history"} # {}

\* the snapshot of lines 271-284, or 449-462
FullSnapshot(top, c, t) ==
    Snapshot(TotalRequestsValue, TodayRequestsValue,
             UptimeHours(IF backend = "memory" THEN now ELSE t, StartTimeValue),
             top, AllRequestCountsValue, DailyHistoryValue(c), CurrentDate(t))

\* the mutant of StatisticsResult: requestCounts is read outside the try block
StatisticsResultCountsUncaught(failing, top, c, t) ==
    IF PromiseAllRejects(failing) \/ "start_time" \in failing
    THEN Result("getStatistics", "", TRUE, FALSE, ZeroSnapshot(t))
    ELSE IF "counts" \in failing
    THEN Result("getStatistics", "", TRUE, TRUE, ZeroSnapshot(t))
    ELSE Result("getStatistics", "", FALSE, FALSE, FullSnapshot(top, c, t))

\* getStatistics, lines 247-302: the awaits in the try block, in order, and
\* the catch branch; `failing` are the reads that reject
StatisticsResult(failing, top, c, t) ==
    IF PromiseAllRejects(failing)
    THEN Result("getStatistics", "", TRUE, FALSE, ZeroSnapshot(t))
    ELSE IF "start_time" \in failing
    THEN Result("getStatistics", "", TRUE, FALSE, ZeroSnapshot(t))
    ELSE IF "counts" \in failing
    THEN Result("getStatistics", "", TRUE, FALSE, ZeroSnapshot(t))
    ELSE Result("getStatistics", "", FALSE, FALSE, FullSnapshot(top, c, t))

GetStatistics(failedReads, c) ==
    /\ CanRead
    /\ failedReads # {} => backend = "sqlite"
    /\ ClockSteps(c)
    /\ \E top \in TopEndpointsValues(StatsTopLimit) :
          last' = StatisticsResult(FailingReads(failedReads), top, c, now')
    /\ UNCHANGED <<backend, startTime, memVars, proc, db, queue, fileVars,
                   calls, callDays, tracked, resets, restarts, fresh, resetAt>>

(***************************************************************************)
(* GET /api/info, src/index.js lines 127-154.                              *)
(***************************************************************************)
\* apiModules: the routes loaded from the api folder (lines 103-111)
ApiModules == {[method |-> "get", basePath |-> "/weather"],
               [method |-> "post", basePath |-> "/joke"]}

\* line 137
RequestKey(module) == ToUpperCase(module.method) \o " " \o module.basePath

\* lines 129 and 138: requestCounts[requestKey] || 0, where requestCounts is
\* what getAllRequestCounts() returned: the object of the in-memory tracker,
\* or the Promise of the SQLite tracker, which has no such property
InfoRequestCount(module) ==
    IF backend = "memory" THEN GetOr0(requestCounts, RequestKey(module)) ELSE 0

\* JSON of a Promise: an object without properties
EmptyObject == [op |-> "{}"]

\* line 152: what res.json serializes for `statistics`
InfoStatistics ==
    IF backend = "memory"
    THEN FullSnapshot(MemTopEndpoints(requestCounts, StatsTopLimit), HistoryDays, now)
    ELSE EmptyObject

\* the handler answers with res.json, which the middleware has overridden
ApiInfo ==
    /\ Running
    /\ tracked + TrackCallsOf("/api/info", 200, "json") <= MaxPipelineTrack
    /\ TrackTimes(StripApi("/api/info"), "GET", TrackCallsOf("/api/info", 200, "json"))
    /\ last' = [op |-> "info",
                counts |-> [module \in ApiModules |-> InfoRequestCount(module)],
                statistics |-> InfoStatistics]
    /\ UNCHANGED <<backend, now, startTime, proc, db, fileVars,
                   resets, restarts, ticks, resetAt>>

(***************************************************************************)
(* Specifications.  Spec: the tracker's writes, the database handle, the   *)
(* process, and the two counter reads.  SpecReset: writes, reset and every *)
(* query, with the clock.  SpecQueries: writes and the list queries, with  *)
(* the clock.  SpecPipeline: the response middleware driving the tracker.  *)
(***************************************************************************)
Writes ==
    \/ \E p \in Paths, m \in Methods : TrackRequest(p, m)
    \/ Reset

Engine ==
    \/ Open
    \/ OpenFails
    \/ \E err \in BOOLEAN : Exec(err)

CounterReads ==
    \/ \E err \in BOOLEAN : GetTotalRequests(err)
    \/ \E p \in Paths, m \in Methods, err \in BOOLEAN : GetRequestCount(p, m, err)

ListReads ==
    \/ \E k \in 0..MaxLimit, err \in BOOLEAN : GetTopEndpoints(k, err)
    \/ \E days \in {3, HistoryDays}, c \in 1..HistoryDays, err \in BOOLEAN :
          GetDailyHistory(days, c, err)
    \/ \E fr \in {{}} \cup {{r} : r \in ReadNames}, c \in 1..HistoryDays : GetStatistics(fr, c)

Next ==
    \/ Writes
    \/ Engine
    \/ Signal
    \/ Restart
    \/ CounterReads

Spec == Init /\ [][Next]_vars

NextReset ==
    \/ Writes
    \/ Engine
    \/ Tick
    \/ CounterReads
    \/ ListReads

SpecReset == Init /\ [][NextReset]_vars

NextQueries ==
    \/ \E p \in Paths, m \in Methods : TrackRequest(p, m)
    \/ Engine
    \/ Tick
    \/ ListReads

SpecQueries == Init /\ [][NextQueries]_vars

NextPipeline ==
    \/ \E p \in ReqPaths, m \in ReqMethods, st \in Statuses, via \in ResponseMethods :
          HandleRequest(p, m, st, via)
    \/ ApiInfo
    \/ Engine

SpecPipeline == Init /\ [][NextPipeline]_vars

NextToday ==
    \/ \E p \in Paths, m \in Methods : TrackRequest(p, m)
    \/ Engine
    \/ Tick
    \/ \E err \in BOOLEAN : GetTodayRequests(err)

SpecToday == Init /\ [][NextToday]_vars

NextKeys ==
    \/ \E p \in Paths, m \in KeyMethods : TrackKey(p, m)
    \/ Engine
    \/ CounterReads
    \/ \E err \in BOOLEAN : GetAllRequestCounts(err)

SpecKeys == Init /\ [][NextKeys]_vars

NextLifecycle ==
    \/ Writes
    \/ Engine
    \/ Close
    \/ ExecClose
    \/ ClosedFails
    \/ Signal

SpecLifecycle == Init /\ [][NextLifecycle]_vars

NextStart ==
    \/ Writes
    \/ Engine
    \/ Signal
    \/ Restart
    \/ Tick
    \/ GetStatistics({}, HistoryDays)

SpecStart == Init /\ [][NextStart]_vars

\* initialization without storage failures and without signals: the handle
\* opens, every statement runs unless its table is missing, and the program
\* is started again after it has ended
NextInit ==
    \/ \E p \in Paths, m \in Methods : TrackRequest(p, m)
    \/ Open
    \/ Exec(FALSE)
    \/ Restart

SpecInit == Init /\ [][NextInit]_vars

(***************************************************************************)
(* Properties.                                                             *)
(***************************************************************************)
StringMethods == {m \in Methods : IsString(m)}

\* nothing is in flight: every statement scheduled so far has run
Settled == backend = "memory" \/ (proc = "running" /\ db = "open" /\ queue = <<>>)

\* the process that was started first is still the one running
FirstRun == restarts = 0

\* C1: after N trackRequest calls and no reset, once all of them have
\* completed, getTotalRequests() is N
C1_TotalEqualsCalls ==
    (Settled /\ FirstRun /\ resets = 0) =>
        /\ TotalRequestsValue = Len(calls)
        /\ (last.op = "getTotalRequests" /\ ~last.rejected) => last.res = Len(calls)

C1_Witness ==
    /\ backend = "sqlite" /\ Settled /\ FirstRun /\ resets = 0
    /\ Len(calls) >= 2
    /\ last.op = "getTotalRequests" /\ ~last.rejected /\ last.res = Len(calls)

\* C2: once all calls have completed, getRequestCount of every key is the
\* number of trackRequest calls made with that key since the last reset, and
\* 0 for a key never tracked
C2_CountEqualsCallsOfKey ==
    (Settled /\ FirstRun) =>
        /\ \A p \in Paths, m \in StringMethods :
              RequestCountValue(p, m) = CountOf(calls, EndpointKey(m, p))
        /\ (last.op = "getRequestCount" /\ ~last.rejected) =>
              last.res = CountOf(calls, last.arg)

C2_Witness ==
    /\ backend = "sqlite" /\ Settled /\ FirstRun
    /\ Len(calls) >= 2
    /\ \E k \in AllKeys : CountOf(calls, k) = 0
    /\ last.op = "getRequestCount" /\ ~last.rejected /\ last.res >= 1
    /\ last.res < Len(calls)

\* C3: whenever no trackRequest or reset is in flight, getTotalRequests()
\* equals the sum of the endpoint counters and the sum of the day buckets
C3_FamiliesAgree ==
    Settled =>
        /\ TotalRequestsValue = SumV(EndpointRows)
        /\ TotalRequestsValue = SumV(DailyRows)

\* C4: a read that follows a completed reset, with no trackRequest called
\* since reset was called, returns zero or empty results, and the start time
\* is not before the time reset was called
C4_ResetThenReadsZero ==
    fresh =>
        /\ TotalRequestsValue = 0
        /\ TodayRequestsValue = 0
        /\ \A p \in Paths, m \in StringMethods : RequestCountValue(p, m) = 0
        /\ AllRequestCountsValue = {}
        /\ \A k \in 0..MaxLimit : TopEndpointsValues(k) = {<<>>}
        /\ \A c, j \in 1..HistoryDays : DailyHistoryValue(c)[j].count = 0
        /\ StartTimeValue >= resetAt
        /\ (last.op = "getStatistics" /\ ~last.failed) =>
              /\ last.res.totalRequests = 0
              /\ last.res.todayRequests = 0
              /\ last.res.topEndpoints = <<>>
              /\ last.res.requestCounts = {}
              /\ \A j \in 1..Len(last.res.dailyHistory) : last.res.dailyHistory[j].count = 0
        /\ (last.op \in {"getTotalRequests", "getRequestCount"} /\ ~last.rejected) =>
              last.res = 0
        /\ (last.op = "getTopEndpoints" /\ ~last.rejected) => last.res = <<>>
        /\ (last.op = "getDailyHistory" /\ ~last.rejected) =>
              \A j \in 1..Len(last.res) : last.res[j].count = 0

C4_Witness ==
    /\ backend = "sqlite" /\ fresh
    /\ tracked >= 1 /\ calls = <<>>
    /\ now > resetAt
    /\ last.op = "getStatistics" /\ ~last.failed

\* C5: after the store is stopped and started again, getTotalRequests() and
\* getRequestCount of every key are what the calls tracked before the stop
\* made them
C5_RestartPreserves ==
    (backend = "sqlite" /\ restarts > 0 /\ Settled) =>
        /\ TotalRequestsValue = Len(calls)
        /\ \A p \in Paths, m \in StringMethods :
              RequestCountValue(p, m) = CountOf(calls, EndpointKey(m, p))

\* C6: getDailyHistory(days) returns exactly `days` entries, each the day
\* after the one before it, the last one today, each with its day's bucket
\* count (0 for a day without a bucket)
C6_DailyHistoryShape ==
    (last.op = "getDailyHistory" /\ ~last.rejected) =>
        /\ Len(last.res) = last.arg
        /\ \A j \in 1..(Len(last.res) - 1) :
              ParseDate(last.res[j + 1].date) = ParseDate(last.res[j].date) + 1
        /\ last.res[Len(last.res)].date = toDateString(DayOf(now))
        /\ \A j \in 1..Len(last.res) : last.res[j].count = GetOr0(DailyRows, last.res[j].date)

\* the place of key k among the keys in the order they were first tracked
FirstSeen(k) == CHOOSE i \in 1..Len(calls) : calls[i] = k /\ \A j \in 1..(i - 1) : calls[j] # k

\* C7: getTopEndpoints(k) returns at most k entries, counts descending, and
\* among equal counts the endpoint first seen comes first
C7_TopEndpointsOrder ==
    (last.op = "getTopEndpoints" /\ ~last.rejected) =>
        /\ Len(last.res) <= last.arg
        /\ \A i, j \in 1..Len(last.res) :
              i < j =>
                 \/ last.res[i].count > last.res[j].count
                 \/ /\ last.res[i].count = last.res[j].count
                    /\ FirstSeen(last.res[i].endpoint) < FirstSeen(last.res[j].endpoint)

\* C8: the middleware calls trackRequest exactly once for a request with a
\* path under /api/ and a status below 400, and never for any other request
C8_OneTrackPerRequest ==
    last.op = "request" => last.calls = (IF last.tracked THEN 1 ELSE 0)

\* C9: trackRequest never raises to its caller
C9_TrackNeverThrows ==
    last.op = "trackRequest" => last.outcome = "returned"

\* C10: getStatistics() never rejects, and when one of its reads fails it
\* returns the snapshot with zero counts and empty lists
C10_StatisticsNeverFails ==
    last.op = "getStatistics" =>
        /\ ~last.rejected
        /\ last.failed =>
              /\ last.res.totalRequests = 0
              /\ last.res.todayRequests = 0
              /\ last.res.uptimeHours = 0
              /\ last.res.topEndpoints = <<>>
              /\ last.res.requestCounts = {}
              /\ last.res.dailyHistory = <<>>

C10_Witness ==
    /\ backend = "sqlite"
    /\ last.op = "getStatistics" /\ last.failed
    /\ {"stats", "request_counts", "daily_requests"} \subseteq tables
    /\ TotalRequestsValue >= 1 /\ TodayRequestsValue >= 1
    /\ now >= StartTimeValue + TicksPerHour

\* C11: once the calls have completed, getTodayRequests() is the number of
\* events tracked on the current calendar day, and the events of an earlier
\* day are still in that day's bucket
C11_TodayCountsTodayOnly ==
    (Settled /\ FirstRun) =>
        /\ TodayRequestsValue = CountOf(callDays, toDateString(DayOf(now)))
        /\ \A i \in 1..Len(callDays) :
              GetOr0(DailyRows, callDays[i]) = CountOf(callDays, callDays[i])
        /\ (last.op = "getTodayRequests" /\ ~last.rejected) =>
              last.res = CountOf(callDays, last.arg)

C11_Witness ==
    /\ backend = "sqlite" /\ Settled /\ FirstRun
    /\ Len(callDays) = 2 /\ callDays[1] # callDays[2]
    /\ callDays[2] = toDateString(DayOf(now))
    /\ last.op = "getTodayRequests" /\ ~last.rejected /\ last.res = 1

\* the keys tracked since the last reset
KeysOfCalls == {calls[i] : i \in 1..Len(calls)}

\* C12: two methods give the same endpoint key exactly when they are equal
\* after upper-casing, and once the calls have completed every key's counter
\* is the number of calls with that key, the map of all counts holds exactly
\* these counters, and the total is the number of calls
C12_KeyCanonical ==
    /\ \A p \in Paths, m1, m2 \in StringMethods :
          (EndpointKey(m1, p) = EndpointKey(m2, p)) <=> (ToUpperCase(m1) = ToUpperCase(m2))
    /\ KeysOfCalls \subseteq {ToUpperCase(m) \o " " \o p : m \in StringMethods, p \in Paths}
    /\ (Settled /\ FirstRun /\ resets = 0) =>
          /\ AllRequestCountsValue = {[k |-> key, v |-> CountOf(calls, key)] : key \in KeysOfCalls}
          /\ TotalRequestsValue = Len(calls)
          /\ (last.op = "getAllRequestCounts" /\ ~last.rejected) =>
                last.res = {[k |-> key, v |-> CountOf(calls, key)] : key \in KeysOfCalls}
          /\ (last.op = "getRequestCount" /\ ~last.rejected) =>
                last.res = CountOf(calls, last.arg)
          /\ (last.op = "getTotalRequests" /\ ~last.rejected) => last.res = Len(calls)

C12_Witness ==
    /\ backend = "sqlite" /\ Settled /\ FirstRun
    /\ CountOf(calls, "GET /weather") = 3 /\ CountOf(calls, "POST /weather") = 1
    /\ TotalRequestsValue = 4
    /\ RequestCountValue("/weather", "get") = 3
    /\ last.op = "getAllRequestCounts" /\ ~last.rejected
    /\ last.res = {[k |-> "GET /weather", v |-> 3], [k |-> "POST /weather", v |-> 1]}

\* C13: the /api/info response reports for every route the endpoint counter
\* stored under its key, and holds the statistics snapshot
C13_InfoReportsCounts ==
    last.op = "info" =>
        /\ \A module \in ApiModules :
              last.counts[module] = GetOr0(EndpointRows, RequestKey(module))
        /\ last.statistics # EmptyObject

\* the sum of the counts of an object of endpoint counts
RECURSIVE SumOfCounts(_)
SumOfCounts(entries) ==
    IF entries = {} THEN 0
    ELSE LET e == CHOOSE x \in entries : TRUE IN e.v + SumOfCounts(entries \ {e})

\* C14: no read observes an event or a reset in one counter family and not
\* in another: the totalRequests of every snapshot getStatistics() returns is
\* the sum of the snapshot's requestCounts
C14_NoTornSnapshot ==
    (last.op = "getStatistics" /\ ~last.failed) =>
        last.res.totalRequests = SumOfCounts(last.res.requestCounts)

\* the step is a trackRequest call that got past the construction of its key
TrackStep == last'.op = "trackRequest" /\ last'.method = ""

\* C15: the handle only moves forward (opening, open, closed) and is never
\* reopened, and a trackRequest call made after close() was called returns
\* normally and changes nothing: no counter, nothing scheduled, no error
C15_Lifecycle ==
    [][ /\ db = "open" => db' \in {"open", "closed"}
        /\ db = "closed" => db' = "closed"
        /\ (CloseCalled /\ TrackStep) =>
              /\ last'.outcome = "returned"
              /\ queue' = queue
              /\ UNCHANGED <<memVars, fileVars>>
        /\ (CloseCalled /\ proc = "running") => proc' # "crashed" ]_vars

\* C16: when the process has exited on SIGINT or SIGTERM, a database that
\* was open has been closed: the process never exits on an open handle
C16_CloseBeforeExit ==
    (backend = "sqlite" /\ proc = "exited") => db # "open"

\* C17: after the database could not be opened the tracker works in memory:
\* nothing waits on the handle, and every trackRequest call that returned is
\* counted in what the reads return
C17_FallbackOnOpenFailure ==
    (backend = "sqlite" /\ proc = "running" /\ db = "failed" /\ FirstRun /\ resets = 0) =>
        /\ queue = <<>>
        /\ TotalRequestsValue = Len(calls)
        /\ \A p \in Paths, m \in StringMethods :
              RequestCountValue(p, m) = CountOf(calls, EndpointKey(m, p))

\* C18: in the SQLite tracker the stored start_time, once written, is kept
\* by every step, a restart included, except the run of reset's statement,
\* which sets it to the time that reset() was called; and the uptimeHours
\* of getStatistics() is computed from the stored value
C18_StartTimeKept ==
    [][ backend = "sqlite" =>
          /\ (stats.start_time # NoRow /\ stats'.start_time # stats.start_time) =>
                /\ queue # <<>> /\ Head(queue).op = "setStartTime"
                /\ stats'.start_time = toISOString(Head(queue).n)
                /\ Head(queue).n <= resetAt /\ (resets = 1 => Head(queue).n = resetAt)
          /\ (last'.op = "getStatistics" /\ ~last'.failed /\ stats'.start_time # NoRow) =>
                last'.res.uptimeHours = UptimeHours(now', ParseISO(stats'.start_time)) ]_vars

C18_Witness ==
    /\ backend = "sqlite" /\ restarts = 1 /\ resets = 0
    /\ startTime > StartTick
    /\ stats.start_time = toISOString(StartTick)
    /\ last.op = "getStatistics" /\ ~last.failed
    /\ last.res.uptimeHours = UptimeHours(now, StartTick)
    /\ last.res.uptimeHours > UptimeHours(now, startTime)

\* the statements of reset()
ResetOps == {"deleteEndpoints", "deleteDays", "zeroTotal", "setStartTime"}

\* the step applies a reset: the call itself in memory, the run of one of
\* its statements in SQLite
ResetRuns ==
    IF backend = "memory" THEN resets' # resets
    ELSE queue # <<>> /\ Head(queue).op \in ResetOps

\* every counter is a natural number, and a counter that exists is at least 1
CountersNatural ==
    /\ TotalRequestsValue \in Nat
    /\ \A i \in 1..Len(EndpointRows) : EndpointRows[i].v \in Nat /\ EndpointRows[i].v >= 1
    /\ \A i \in 1..Len(DailyRows) : DailyRows[i].v \in Nat /\ DailyRows[i].v >= 1

\* C19: every counter is a non-negative integer, an endpoint counter that
\* exists is at least 1, and no step other than the application of a reset
\* lowers or removes an endpoint counter, a day bucket or the total
C19_CountersMonotonic ==
    /\ []CountersNatural
    /\ [][ ~ResetRuns =>
              /\ TotalRequestsValue' >= TotalRequestsValue
              /\ \A i \in 1..Len(EndpointRows) :
                    GetOr0(EndpointRows', EndpointRows[i].k) >= EndpointRows[i].v
              /\ \A i \in 1..Len(DailyRows) :
                    GetOr0(DailyRows', DailyRows[i].k) >= DailyRows[i].v ]_vars

C19_Witness ==
    /\ backend = "sqlite" /\ Settled
    /\ resets = 1 /\ tracked = 2 /\ Len(calls) = 1
    /\ TotalRequestsValue = 1
    /\ \E i \in 1..Len(EndpointRows) : EndpointRows[i].v = 1

\* a method that is empty, null or missing
MalformedMethods == {"", NullV, UndefV}

\* C20: trackRequest with a malformed method returns normally and counts the
\* event under the key of GET, and getRequestCount with a malformed method
\* raises no error of its own and reads the counter of GET
C20_MalformedMethodIsGet ==
    [][ \A p \in Paths, m \in MalformedMethods :
          /\ TrackRequest(p, m) =>
                /\ last'.outcome = "returned"
                /\ calls' = Append(calls, "GET " \o p)
          /\ \A err \in BOOLEAN :
                GetRequestCount(p, m, err) =>
                    \/ last'.failed
                    \/ ~last'.rejected /\ last'.arg = "GET " \o p ]_vars

\* C21: a trackRequest issued while the SQLite tracker is initializing is not
\* lost: it does not end the process, and once initialization has finished
\* and the queue is empty, its endpoint counter, its day bucket and the total
\* each hold every call made
C21_InitTrackNotLost ==
    backend = "sqlite" =>
        /\ proc # "crashed"
        /\ (Settled /\ resets = 0) =>
              /\ TotalRequestsValue = Len(calls)
              /\ \A k \in KeysOfCalls : GetOr0(request_counts, k) = CountOf(calls, k)
              /\ \A i \in 1..Len(callDays) :
                    GetOr0(daily_requests, callDays[i]) = CountOf(callDays, callDays[i])

====
